---------------------------- MODULE Spec2Model ----------------------------
(***************************************************************************)
(* A state-machine model of CTCTrainer (tiramisu_asr/runners/              *)
(* ctc_runners.py): compile, fit, the train and eval step, the metric      *)
(* accumulators and the weight file.                                       *)
(*                                                                         *)
(* Tensors of floats are modelled as exact rationals of bounded magnitude: *)
(* a value is a record [n, d] in lowest terms, and a result whose          *)
(* magnitude exceeds MaxFloat, or any operation on a non-finite value, is  *)
(* the one non-finite value (inf and nan are not told apart).              *)
(***************************************************************************)
EXTENDS Integers, Sequences, FiniteSets, TLC

\* ---------------------------------------------------------------- bounds
NumParams == 2          \* trainable variables of a model
MaxFloat == 16          \* largest finite magnitude of a float
MaxSteps == 2           \* train and eval steps in one behaviour
MaxCalls == 5           \* calls and returns of the trainer's operations in one behaviour
MaxReplicas == 2        \* replicas a global batch is split over

\* ------------------------------------------------------ program constants
DefaultMaxToKeep == 10      \* compile(max_to_keep=10)
TimeReductionFactor == 2    \* model.time_reduction_factor
InitialLossScale == 2       \* "dynamic" loss scale: initial scale (scaled down)
IncrementPeriod == 2        \* "dynamic" loss scale: finite steps before growth
Multiplier == 2             \* "dynamic" loss scale: growth and back-off factor

ModelIds == {1}              \* the model object a client passes to compile
GlobalBatchSizes == {1, 2}   \* the configured global batch sizes

\* ------------------------------------------------------- float arithmetic
NonFinite == [n |-> 0, d |-> 0]

IsFinite(x) == x.d # 0

Abs(i) == IF i < 0 THEN -i ELSE i

RECURSIVE GCD(_, _)
GCD(a, b) == IF b = 0 THEN a ELSE GCD(b, a % b)

\* The float nearest n/d: non-finite on overflow, else n/d in lowest terms.
Round(n, d) ==
    IF d = 0 \/ Abs(n) > MaxFloat * d
    THEN NonFinite
    ELSE LET g == GCD(Abs(n), d) IN [n |-> n \div g, d |-> d \div g]

F(i) == Round(i, 1)

FAdd(x, y) ==
    IF IsFinite(x) /\ IsFinite(y)
    THEN Round(x.n * y.d + y.n * x.d, x.d * y.d)
    ELSE NonFinite

FSub(x, y) ==
    IF IsFinite(x) /\ IsFinite(y)
    THEN Round(x.n * y.d - y.n * x.d, x.d * y.d)
    ELSE NonFinite

FMul(x, y) ==
    IF IsFinite(x) /\ IsFinite(y)
    THEN Round(x.n * y.n, x.d * y.d)
    ELSE NonFinite

FDiv(x, y) ==
    IF IsFinite(x) /\ IsFinite(y) /\ y.n # 0
    THEN IF y.n > 0 THEN Round(x.n * y.d, x.d * y.n)
                    ELSE Round(-(x.n * y.d), x.d * (-y.n))
    ELSE NonFinite

FLess(x, y) == IsFinite(x) /\ IsFinite(y) /\ x.n * y.d < y.n * x.d

\* tf.reduce_sum over a vector, left to right.
RECURSIVE FSum(_)
FSum(s) == IF s = << >> THEN F(0) ELSE FAdd(FSum(SubSeq(s, 1, Len(s) - 1)), s[Len(s)])

AllFinite(s) == \A k \in 1..Len(s) : IsFinite(s[k])

\* ------------------------------------------------------------- the state
VARIABLES
    is_mixed_precision,  \* self.is_mixed_precision
    global_batch_size,   \* self.global_batch_size (configuration)
    pc,                  \* "idle", inside fit ("fit_wired", "fit_restored") or "running"
    model,               \* self.model: a model id, 0 before compile
    weights,             \* trainable_variables of every model object
    optimizer,           \* self.optimizer, id 0 before compile
    ckpt_manager,        \* the checkpoint manager, max_to_keep 0 before compile
    checkpoints,         \* the checkpoints the manager's directory holds, oldest first
    latest_h5,           \* the content of <outdir>/latest.h5, << >> when absent
    train_metrics,       \* self.train_metrics: key -> [total, count]
    eval_metrics,        \* self.eval_metrics
    train_data_loader,   \* 0 unset, 1 wired
    eval_data_loader,    \* 0 unset, 1 wired to a dataset, 2 wired to None
    nextId,              \* next fresh object identity
    replicas,            \* a global batch split over replicas (sharded reduction)
    hist                 \* history of calls, read by the properties only

vars == << is_mixed_precision, global_batch_size, pc, model, weights, optimizer,
           ckpt_manager, checkpoints, latest_h5, train_metrics, eval_metrics,
           train_data_loader, eval_data_loader, nextId, replicas, hist >>

Params == 1..NumParams

\* tf.keras.metrics.Mean: a fresh accumulator, update_state and result.
FreshMean == [total |-> F(0), count |-> 0]

UpdateState(m, values) ==
    [total |-> FAdd(m.total, FSum(values)), count |-> m.count + Len(values)]

Result(m) == IF m.count = 0 THEN F(0) ELSE FDiv(m.total, F(m.count))

\* The base trainer's constructor installs both metrics mappings.
SetupMetrics == [k \in {"ctc_loss"} |-> FreshMean]

NoOptimizer == [id |-> 0, wrapped |-> FALSE, inner |-> 0, iterations |-> 0,
                loss_scale |-> F(1), good_steps |-> 0]

NoManager == [model |-> 0, optimizer |-> 0, max_to_keep |-> 0]

NoStep == [kind |-> "none", batch |-> << >>, before |-> << >>, scale |-> F(1),
           per |-> << >>, reduced |-> F(0), gradients |-> << >>, handed |-> << >>,
           applied |-> << >>, after |-> << >>]

NoReplicas == [batch |-> << >>, sizes |-> << >>, done |-> 0, sum |-> F(0)]

Init ==
    /\ is_mixed_precision \in BOOLEAN
    /\ global_batch_size \in GlobalBatchSizes
    /\ pc = "idle"
    /\ model = 0
    /\ weights = [m \in ModelIds |-> [j \in Params |-> F(0)]]
    /\ optimizer = NoOptimizer
    /\ ckpt_manager = NoManager
    /\ checkpoints = << >>
    /\ latest_h5 = << >>
    /\ train_metrics = SetupMetrics
    /\ eval_metrics = SetupMetrics
    /\ train_data_loader = 0
    /\ eval_data_loader = 0
    /\ nextId = 1
    /\ replicas = NoReplicas
    /\ hist = [steps |-> 0, calls |-> 0, saves |-> 0, last |-> NoStep,
               seenTrain |-> << >>, seenEval |-> << >>, reducedTrain |-> << >>,
               trainSets |-> 0, evalSets |-> 0,
               droppedTrain |-> FALSE, droppedEval |-> FALSE,
               saved |-> << >>, restore |-> "none", wiredAfterCompile |-> FALSE,
               keepArg |-> 0, savedByManager |-> 0, allSaves |-> << >>]

\* ------------------------------------------------------------ the inputs
\* One example of a batch: its frame count, its label count, and what the
\* model and the loss make of it in the current state: the loss of a feasible
\* alignment and the derivative of that loss by each trainable variable.
Example(il, ll, l, c) ==
    [input_length |-> il, label_length |-> ll, loss |-> F(l),
     dl |-> [j \in Params |-> F(c + j - 1)]]

ExampleSeq == << Example(8, 3, 1, 1), Example(8, 3, 3, 11), Example(4, 3, 3, 1) >>

Examples == { ExampleSeq[i] : i \in 1..Len(ExampleSeq) }

\* The batches of at most `size` examples, one for each collection of
\* examples (the examples of a batch in the order of ExampleSeq).
Batches(size) ==
    UNION { { [i \in 1..k |-> ExampleSeq[f[i]]] :
                f \in { g \in [1..k -> 1..Len(ExampleSeq)] :
                           \A i \in 1..(k - 1) : g[i] <= g[i + 1] } } :
            k \in 1..size }

\* ------------------------------------------------------------- the loss
\* ctc_loss on one example with the length-reduced input length: infinite
\* when the reduced input is shorter than the labels.
ctc_loss(ex, reduced_length) ==
    IF reduced_length < ex.label_length THEN NonFinite ELSE ex.loss

ctc_grad(ex, reduced_length) ==
    IF reduced_length < ex.label_length THEN [j \in Params |-> NonFinite] ELSE ex.dl

\* Lines 60-65 and 87-92: the per-example losses of a batch.
PerExampleLoss(batch) ==
    [i \in 1..Len(batch) |->
        ctc_loss(batch[i], batch[i].input_length \div TimeReductionFactor)]

\* Mutant: the average over the local shard rather than the global batch.
compute_average_loss_local(per, gbs) == FDiv(FSum(per), F(Len(per)))

\* tf.nn.compute_average_loss: the sum over the global batch size.
compute_average_loss(per, gbs) == FDiv(FSum(per), F(gbs))

\* tape.gradient(target, trainable_variables), where `upstream` is the
\* derivative of target by train_loss: one gradient per trainable variable,
\* in their order.
TapeGradient(upstream, batch, gbs) ==
    [j \in Params |->
        FSum([i \in 1..Len(batch) |->
            FMul(FDiv(upstream, F(gbs)),
                 ctc_grad(batch[i],
                          batch[i].input_length \div TimeReductionFactor)[j])])]

\* Mutant: the scaled gradients are handed on without unscaling.
get_unscaled_gradients_scaled(opt, grads) == grads

\* LossScaleOptimizer.get_scaled_loss and get_unscaled_gradients.
get_scaled_loss(opt, loss) == FMul(loss, opt.loss_scale)

get_unscaled_gradients(opt, grads) ==
    [j \in 1..Len(grads) |-> FMul(grads[j], FDiv(F(1), opt.loss_scale))]

\* Lines 69-76: the gradients of one train step. The scaled loss is linear
\* in train_loss, so its derivative by train_loss is the scaled unit loss.
Gradients(mixed, opt, batch, gbs) ==
    IF mixed
    THEN LET scaled_gradients == TapeGradient(get_scaled_loss(opt, F(1)), batch, gbs)
         IN  get_unscaled_gradients(opt, scaled_gradients)
    ELSE TapeGradient(F(1), batch, gbs)

\* Mutant: the last gradient is left out of the pairs.
ZipShort(grads, variables) ==
    [k \in 1..(Len(grads) - 1) |-> [grad |-> grads[k], var |-> variables[k]]]

\* zip(gradients, trainable_variables): pairs up to the shorter length.
Zip(grads, variables) ==
    [k \in 1..(IF Len(grads) < Len(variables) THEN Len(grads) ELSE Len(variables)) |->
        [grad |-> grads[k], var |-> variables[k]]]

TrainableVariables == [j \in Params |-> j]

\* The wrapped optimizer's update: each pair, in order, var <- var - grad.
RECURSIVE ApplyPairs(_, _)
ApplyPairs(ws, pairs) ==
    IF pairs = << >> THEN ws
    ELSE LET p == Head(pairs)
         IN ApplyPairs([ws EXCEPT ![p.var] = FSub(@, p.grad)], Tail(pairs))

\* optimizer.apply_gradients: the plain optimizer applies every pair; the
\* dynamic loss-scale optimizer applies them only when all are finite, and
\* then counts a good step (growing the scale every IncrementPeriod of
\* them); otherwise it applies none and backs the scale off, not below 1.
apply_gradients(opt, ws, pairs) ==
    LET grads == [k \in 1..Len(pairs) |-> pairs[k].grad]
        grown == FMul(opt.loss_scale, F(Multiplier))
        shrunk == FDiv(opt.loss_scale, F(Multiplier))
    IN  IF ~opt.wrapped
        THEN [opt |-> [opt EXCEPT !.iterations = @ + 1],
              ws |-> ApplyPairs(ws, pairs), applied |-> pairs]
        ELSE IF AllFinite(grads)
        THEN [opt |-> IF opt.good_steps + 1 >= IncrementPeriod /\ IsFinite(grown)
                      THEN [opt EXCEPT !.iterations = @ + 1, !.loss_scale = grown,
                                       !.good_steps = 0]
                      ELSE [opt EXCEPT !.iterations = @ + 1, !.good_steps = @ + 1],
              ws |-> ApplyPairs(ws, pairs), applied |-> pairs]
        ELSE [opt |-> [opt EXCEPT !.loss_scale = IF FLess(shrunk, F(1)) THEN F(1)
                                                ELSE shrunk,
                                  !.good_steps = 0],
              ws |-> ws, applied |-> << >>]

\* -------------------------------------------------------- the operations
\* set_train_metrics / set_eval_metrics (lines 39-47).
FreshMetrics == [k \in {"ctc_loss"} |-> FreshMean]

\* Mutant: an accumulator already installed is kept.
SetTrainMetricsKeep ==
    /\ pc \in {"idle", "running"}
    /\ hist.calls < MaxCalls
    /\ train_metrics' = IF "ctc_loss" \in DOMAIN train_metrics THEN train_metrics
                                                              ELSE FreshMetrics
    /\ hist' = [hist EXCEPT !.calls = @ + 1, !.seenTrain = << >>, !.reducedTrain = << >>,
                            !.trainSets = IF @ < 1 THEN @ + 1 ELSE @,
                            !.droppedTrain = hist.seenTrain # << >>]
    /\ UNCHANGED << replicas, is_mixed_precision, global_batch_size, pc, model, weights,
                    optimizer, ckpt_manager, checkpoints, latest_h5, eval_metrics,
                    train_data_loader, eval_data_loader, nextId >>

SetTrainMetrics ==
    /\ pc \in {"idle", "running"}
    /\ hist.calls < MaxCalls
    /\ train_metrics' = FreshMetrics
    /\ hist' = [hist EXCEPT !.calls = @ + 1, !.seenTrain = << >>, !.reducedTrain = << >>,
                            !.trainSets = IF @ < 1 THEN @ + 1 ELSE @,
                            !.droppedTrain = hist.seenTrain # << >>]
    /\ UNCHANGED << replicas, is_mixed_precision, global_batch_size, pc, model, weights,
                    optimizer, ckpt_manager, checkpoints, latest_h5, eval_metrics,
                    train_data_loader, eval_data_loader, nextId >>

SetEvalMetrics ==
    /\ pc \in {"idle", "running"}
    /\ hist.calls < MaxCalls
    /\ eval_metrics' = FreshMetrics
    /\ hist' = [hist EXCEPT !.calls = @ + 1, !.seenEval = << >>,
                            !.evalSets = IF @ < 1 THEN @ + 1 ELSE @,
                            !.droppedEval = hist.seenEval # << >>]
    /\ UNCHANGED << replicas, is_mixed_precision, global_batch_size, pc, model, weights,
                    optimizer, ckpt_manager, checkpoints, latest_h5, train_metrics,
                    train_data_loader, eval_data_loader, nextId >>

\* Mutant: the train metric is fed the reduced scalar loss.
TrainStepOnReduced(batch) ==
    LET per == PerExampleLoss(batch)
        train_loss == compute_average_loss(per, global_batch_size)
        gradients == Gradients(is_mixed_precision, optimizer, batch, global_batch_size)
        handed == Zip(gradients, TrainableVariables)
        out == apply_gradients(optimizer, weights[model], handed)
    IN  /\ weights' = [weights EXCEPT ![model] = out.ws]
        /\ optimizer' = out.opt
        /\ train_metrics' =
              [train_metrics EXCEPT !["ctc_loss"] = UpdateState(@, << train_loss >>)]
        /\ hist' = [hist EXCEPT !.steps = @ + 1, !.calls = @ + 1,
                                !.seenTrain = @ \o per,
                                !.reducedTrain = Append(@, train_loss),
                                !.last = [kind |-> "train", batch |-> batch,
                                          before |-> weights[model],
                                          scale |-> optimizer.loss_scale,
                                          per |-> per, reduced |-> train_loss,
                                          gradients |-> gradients, handed |-> handed,
                                          applied |-> out.applied,
                                          after |-> out.ws]]

\* _train_step (lines 53-79).
TrainStepOn(batch) ==
    LET per == PerExampleLoss(batch)
        train_loss == compute_average_loss(per, global_batch_size)
        gradients == Gradients(is_mixed_precision, optimizer, batch, global_batch_size)
        handed == Zip(gradients, TrainableVariables)
        out == apply_gradients(optimizer, weights[model], handed)
    IN  /\ weights' = [weights EXCEPT ![model] = out.ws]
        /\ optimizer' = out.opt
        /\ train_metrics' =
              [train_metrics EXCEPT !["ctc_loss"] = UpdateState(@, per)]
        /\ hist' = [hist EXCEPT !.steps = @ + 1, !.calls = @ + 1,
                                !.seenTrain = @ \o per,
                                !.reducedTrain = Append(@, train_loss),
                                !.last = [kind |-> "train", batch |-> batch,
                                          before |-> weights[model],
                                          scale |-> optimizer.loss_scale,
                                          per |-> per, reduced |-> train_loss,
                                          gradients |-> gradients, handed |-> handed,
                                          applied |-> out.applied,
                                          after |-> out.ws]]

TrainStep ==
    /\ pc = "running"
    /\ model # 0
    /\ hist.steps < MaxSteps
    /\ hist.calls < MaxCalls
    /\ "ctc_loss" \in DOMAIN train_metrics
    /\ is_mixed_precision => optimizer.wrapped
    /\ \E batch \in Batches(global_batch_size) : TrainStepOn(batch)
    /\ UNCHANGED << replicas, is_mixed_precision, global_batch_size, pc, model, ckpt_manager,
                    checkpoints, latest_h5, eval_metrics, train_data_loader,
                    eval_data_loader, nextId >>

\* Mutant: the eval step runs the backward pass and the optimizer too.
EvalStepOnTraining(batch) ==
    LET per == PerExampleLoss(batch)
        gradients == Gradients(is_mixed_precision, optimizer, batch, global_batch_size)
        out == apply_gradients(optimizer, weights[model], Zip(gradients, TrainableVariables))
    IN  /\ weights' = [weights EXCEPT ![model] = out.ws]
        /\ optimizer' = out.opt
        /\ eval_metrics' = [eval_metrics EXCEPT !["ctc_loss"] = UpdateState(@, per)]
        /\ hist' = [hist EXCEPT !.steps = @ + 1, !.calls = @ + 1,
                                !.seenEval = @ \o per,
                                !.last = [NoStep EXCEPT !.kind = "eval", !.batch = batch,
                                                        !.before = weights[model],
                                                        !.per = per,
                                                        !.after = out.ws]]

\* _eval_step (lines 81-95).
EvalStepOn(batch) ==
    LET per == PerExampleLoss(batch)
    IN  /\ eval_metrics' = [eval_metrics EXCEPT !["ctc_loss"] = UpdateState(@, per)]
        /\ hist' = [hist EXCEPT !.steps = @ + 1, !.calls = @ + 1,
                                !.seenEval = @ \o per,
                                !.last = [NoStep EXCEPT !.kind = "eval", !.batch = batch,
                                                        !.before = weights[model],
                                                        !.per = per,
                                                        !.after = weights[model]]]
        /\ UNCHANGED << weights, optimizer >>

EvalStep ==
    /\ pc = "running"
    /\ model # 0
    /\ eval_data_loader = 1
    /\ hist.steps < MaxSteps
    /\ hist.calls < MaxCalls
    /\ "ctc_loss" \in DOMAIN eval_metrics
    /\ \E batch \in Batches(global_batch_size) : EvalStepOn(batch)
    /\ UNCHANGED << replicas, is_mixed_precision, global_batch_size, pc, model, ckpt_manager,
                    checkpoints, latest_h5, train_metrics, train_data_loader,
                    eval_data_loader, nextId >>

\* save_model_weights (lines 49-51): model.save_weights writes one dataset
\* per weight, keyed by the weight's name, replacing the file; load_weights
\* reads each weight back by its name.
save_weights(ws) == [k \in 1..Len(ws) |-> [name |-> k, value |-> ws[k]]]

load_weights(file) ==
    [j \in Params |-> (CHOOSE e \in { file[k] : k \in 1..Len(file) } : e.name = j).value]

\* Mutant: an existing file is not replaced.
SaveModelWeightsKeep ==
    /\ pc \in {"idle", "running"}
    /\ model # 0
    /\ hist.calls < MaxCalls
    /\ latest_h5' = IF latest_h5 = << >> THEN save_weights(weights[model]) ELSE latest_h5
    /\ hist' = [hist EXCEPT !.calls = @ + 1, !.saved = weights[model]]
    /\ UNCHANGED << replicas, is_mixed_precision, global_batch_size, pc, model, weights,
                    optimizer, ckpt_manager, checkpoints, train_metrics, eval_metrics,
                    train_data_loader, eval_data_loader, nextId >>

SaveModelWeights ==
    /\ pc \in {"idle", "running"}
    /\ model # 0
    /\ hist.calls < MaxCalls
    /\ latest_h5' = save_weights(weights[model])
    /\ hist' = [hist EXCEPT !.calls = @ + 1, !.saved = weights[model]]
    /\ UNCHANGED << replicas, is_mixed_precision, global_batch_size, pc, model, weights,
                    optimizer, ckpt_manager, checkpoints, train_metrics, eval_metrics,
                    train_data_loader, eval_data_loader, nextId >>

\* compile (lines 97-106).
ResolveOptimizer(id) == [NoOptimizer EXCEPT !.id = id]

LossScaleOptimizer(inner, id) ==
    [id |-> id, wrapped |-> TRUE, inner |-> inner.id, iterations |-> inner.iterations,
     loss_scale |-> F(InitialLossScale), good_steps |-> 0]

CompiledOptimizer(mixed, id) ==
    IF mixed THEN LossScaleOptimizer(ResolveOptimizer(id), id + 1)
             ELSE ResolveOptimizer(id)

\* The checkpoint manager of the base trainer: what it is bound to and how
\* many checkpoints it keeps.
create_checkpoint_manager(max_to_keep, m, opt) ==
    [model |-> m, optimizer |-> opt.id, max_to_keep |-> max_to_keep]

\* Mutant: the manager is created before the optimizer is wrapped.
CompiledManagerUnwrapped(max_to_keep, m, mixed, id) ==
    create_checkpoint_manager(max_to_keep, m, ResolveOptimizer(id))

\* Mutant: the manager is told to keep one checkpoint more.
CompiledManagerOneMore(max_to_keep, m, mixed, id) ==
    create_checkpoint_manager(max_to_keep + 1, m, CompiledOptimizer(mixed, id))

\* Line 106: the manager compile creates.
CompiledManager(max_to_keep, m, mixed, id) ==
    create_checkpoint_manager(max_to_keep, m, CompiledOptimizer(mixed, id))

KeepArgs == {2, DefaultMaxToKeep}

Compile ==
    /\ pc = "idle"
    /\ hist.calls < MaxCalls
    /\ \E m \in ModelIds, k \in KeepArgs :
          /\ model' = m
          /\ optimizer' = CompiledOptimizer(is_mixed_precision, nextId)
          /\ ckpt_manager' = CompiledManager(k, m, is_mixed_precision, nextId)
          /\ hist' = [hist EXCEPT !.calls = @ + 1, !.keepArg = k,
                                  !.savedByManager = 0]
    /\ nextId' = nextId + 2
    /\ UNCHANGED << replicas, is_mixed_precision, global_batch_size, pc, weights, checkpoints,
                    latest_h5, train_metrics, eval_metrics, train_data_loader,
                    eval_data_loader >>

\* fit (lines 108-112), one action per call it makes.
FitWire ==
    /\ pc = "idle"
    /\ hist.calls < MaxCalls
    /\ train_data_loader' = 1
    /\ eval_data_loader' \in {1, 2}
    /\ pc' = "fit_wired"
    /\ hist' = [hist EXCEPT !.calls = @ + 1, !.restore = "none",
                            !.wiredAfterCompile = (model # 0)]
    /\ UNCHANGED << replicas, is_mixed_precision, global_batch_size, model, weights, optimizer,
                    ckpt_manager, checkpoints, latest_h5, train_metrics, eval_metrics,
                    nextId >>

\* load_checkpoint of the base trainer: restores the manager's latest
\* checkpoint into the model and the optimizer; without one, nothing.
load_checkpoint ==
    IF checkpoints = << >>
    THEN /\ UNCHANGED << weights, optimizer >>
         /\ hist' = [hist EXCEPT !.restore = "missing"]
    ELSE LET c == checkpoints[Len(checkpoints)]
         IN  /\ weights' = [weights EXCEPT ![model] = c.weights]
             /\ optimizer' = [optimizer EXCEPT !.iterations = c.opt.iterations,
                                               !.loss_scale = c.opt.loss_scale,
                                               !.good_steps = c.opt.good_steps]
             /\ hist' = [hist EXCEPT !.restore = "restored"]

\* Mutant: fit goes on to the run loop without load_checkpoint.
FitSkipLoadCheckpoint ==
    /\ pc = "fit_wired"
    /\ pc' = "fit_restored"
    /\ UNCHANGED << weights, optimizer, hist >>
    /\ UNCHANGED << replicas, is_mixed_precision, global_batch_size, model, ckpt_manager,
                    checkpoints, latest_h5, train_metrics, eval_metrics,
                    train_data_loader, eval_data_loader, nextId >>

FitLoadCheckpoint ==
    /\ pc = "fit_wired"
    /\ IF ckpt_manager = NoManager
       THEN /\ pc' = "idle"    \* no manager before compile: fit raises
            /\ UNCHANGED << weights, optimizer, hist >>
       ELSE /\ pc' = "fit_restored"
            /\ load_checkpoint
    /\ UNCHANGED << replicas, is_mixed_precision, global_batch_size, model, ckpt_manager,
                    checkpoints, latest_h5, train_metrics, eval_metrics,
                    train_data_loader, eval_data_loader, nextId >>

FitRun ==
    /\ pc = "fit_restored"
    /\ pc' = "running"
    /\ UNCHANGED << replicas, is_mixed_precision, global_batch_size, model, weights, optimizer,
                    ckpt_manager, checkpoints, latest_h5, train_metrics, eval_metrics,
                    train_data_loader, eval_data_loader, nextId, hist >>

\* The run loop of the base trainer returns.
RunReturn ==
    /\ pc = "running"
    /\ hist.calls < MaxCalls
    /\ pc' = "idle"
    /\ hist' = [hist EXCEPT !.calls = @ + 1]
    /\ UNCHANGED << replicas, is_mixed_precision, global_batch_size, model, weights, optimizer,
                    ckpt_manager, checkpoints, latest_h5, train_metrics, eval_metrics,
                    train_data_loader, eval_data_loader, nextId >>

\* A checkpoint save by the run loop: the manager adds the new checkpoint
\* and deletes the oldest ones beyond max_to_keep.
Evict(cs, max_to_keep) ==
    IF Len(cs) > max_to_keep THEN SubSeq(cs, Len(cs) - max_to_keep + 1, Len(cs)) ELSE cs

SaveCheckpoint ==
    /\ pc = "running"
    /\ model # 0
    /\ hist.calls < MaxCalls
    /\ LET c == [n |-> hist.saves + 1, weights |-> weights[model],
                 opt |-> [iterations |-> optimizer.iterations,
                          loss_scale |-> optimizer.loss_scale,
                          good_steps |-> optimizer.good_steps]]
       IN  /\ checkpoints' = Evict(Append(checkpoints, c), ckpt_manager.max_to_keep)
           /\ hist' = [hist EXCEPT !.calls = @ + 1, !.saves = @ + 1, !.savedByManager = @ + 1,
                                   !.allSaves = Append(@, c.n)]
    /\ UNCHANGED << replicas, is_mixed_precision, global_batch_size, pc, model, weights,
                    optimizer, ckpt_manager, latest_h5, train_metrics, eval_metrics,
                    train_data_loader, eval_data_loader, nextId >>

Next ==
    \/ SetTrainMetrics
    \/ SetEvalMetrics
    \/ SaveModelWeights
    \/ Compile
    \/ FitWire
    \/ FitLoadCheckpoint
    \/ FitRun
    \/ TrainStep
    \/ EvalStep
    \/ SaveCheckpoint
    \/ RunReturn

Spec == Init /\ [][Next]_vars

TypeOK ==
    /\ is_mixed_precision \in BOOLEAN
    /\ pc \in {"idle", "fit_wired", "fit_restored", "running"}
    /\ model \in ModelIds \cup {0}

\* ------------------------------------------------- the sharded reduction
\* A global batch of global_batch_size examples is split into contiguous
\* shards, one per replica; each replica reduces its shard's losses as
\* lines 60-67 do, and the replicas' reduced losses are summed.
RECURSIVE SumInts(_)
SumInts(s) == IF s = << >> THEN 0 ELSE s[1] + SumInts(Tail(s))

Partitions(size) ==
    UNION { { p \in [1..r -> 0..size] : SumInts(p) = size } : r \in 1..MaxReplicas }

ShardOf(r) ==
    LET start == SumInts(SubSeq(r.sizes, 1, r.done))
    IN  SubSeq(r.batch, start + 1, start + r.sizes[r.done + 1])

InitShard ==
    /\ is_mixed_precision \in BOOLEAN
    /\ global_batch_size \in GlobalBatchSizes
    /\ pc = "sharding"
    /\ model = 0
    /\ weights = [m \in ModelIds |-> [j \in Params |-> F(0)]]
    /\ optimizer = NoOptimizer
    /\ ckpt_manager = NoManager
    /\ checkpoints = << >>
    /\ latest_h5 = << >>
    /\ train_metrics = SetupMetrics
    /\ eval_metrics = SetupMetrics
    /\ train_data_loader = 0
    /\ eval_data_loader = 0
    /\ nextId = 1
    /\ \E b \in [1..global_batch_size -> Examples], p \in Partitions(global_batch_size) :
          replicas = [batch |-> b, sizes |-> p, done |-> 0, sum |-> F(0)]
    /\ hist = [steps |-> 0, calls |-> 0, saves |-> 0, last |-> NoStep,
               seenTrain |-> << >>, seenEval |-> << >>, reducedTrain |-> << >>,
               trainSets |-> 0, evalSets |-> 0,
               droppedTrain |-> FALSE, droppedEval |-> FALSE,
               saved |-> << >>, restore |-> "none", wiredAfterCompile |-> FALSE,
               keepArg |-> 0, savedByManager |-> 0, allSaves |-> << >>]

ReplicaStep ==
    /\ pc = "sharding"
    /\ replicas.done < Len(replicas.sizes)
    /\ LET train_loss == compute_average_loss(PerExampleLoss(ShardOf(replicas)),
                                             global_batch_size)
       IN  replicas' = [replicas EXCEPT !.done = @ + 1, !.sum = FAdd(@, train_loss)]
    /\ UNCHANGED << is_mixed_precision, global_batch_size, pc, model, weights,
                    optimizer, ckpt_manager, checkpoints, latest_h5, train_metrics,
                    eval_metrics, train_data_loader, eval_data_loader, nextId, hist >>

NextShard == ReplicaStep

SpecShard == InitShard /\ [][NextShard]_vars

\* ------------------------------------------------------------ properties
Last == hist.last

MeanOf(s) == IF s = << >> THEN F(0) ELSE FDiv(FSum(s), F(Len(s)))

Accumulated(s) == [total |-> FSum(s), count |-> Len(s)]

Zeros == [j \in Params |-> F(0)]

\* C1: a step marked as an eval step leaves the weights of every model, the
\* optimizer, the train metrics and everything else as they were; only the
\* eval accumulator changes, by the losses of the batch.
C1_EvalStepReadOnly ==
    [][ (hist'.steps = hist.steps + 1 /\ hist'.last.kind = "eval") =>
          /\ weights' = weights
          /\ optimizer' = optimizer
          /\ train_metrics' = train_metrics
          /\ model' = model
          /\ ckpt_manager' = ckpt_manager
          /\ checkpoints' = checkpoints
          /\ latest_h5' = latest_h5
          /\ eval_metrics'["ctc_loss"].count =
                eval_metrics["ctc_loss"].count + Len(hist'.last.batch) ]_vars

C1_Witness ==
    /\ Last.kind = "eval"
    /\ model # 0
    /\ weights[model] # Zeros
    /\ optimizer.iterations > 0
    /\ eval_metrics["ctc_loss"].count > 0

\* Every trainable variable is handed to the optimizer once, with its own
\* gradient.
HandedOnce(last) ==
    /\ Len(last.handed) = NumParams
    /\ \A k \in 1..Len(last.handed) :
          last.handed[k].var = k /\ last.handed[k].grad = last.gradients[k]

\* Every trainable variable was updated once, by its own gradient.
AppliedOnce(last) ==
    /\ \A j \in Params :
          Cardinality({ k \in 1..Len(last.applied) : last.applied[k].var = j }) = 1
    /\ \A k \in 1..Len(last.applied) :
          last.applied[k].grad = last.gradients[last.applied[k].var]
    /\ \A j \in Params : last.after[j] = FSub(last.before[j], last.gradients[j])

\* C2 as stated: after every train step, with or without mixed precision,
\* there is one gradient per trainable variable and each was applied to its
\* variable exactly once.
C2_Original ==
    Last.kind = "train" =>
        /\ Len(Last.gradients) = NumParams
        /\ AppliedOnce(Last)

\* C2 as amended: after every train step there is one gradient per
\* trainable variable and each is handed to the optimizer once with its
\* variable; each is applied exactly once, except that under mixed precision
\* a step with a non-finite gradient applies none and leaves the weights.
C2_AppliedOnceUnlessSkipped ==
    Last.kind = "train" =>
        /\ Len(Last.gradients) = NumParams
        /\ HandedOnce(Last)
        /\ IF is_mixed_precision /\ ~AllFinite(Last.gradients)
           THEN Last.applied = << >> /\ Last.after = Last.before
           ELSE AppliedOnce(Last)

C2_Witness ==
    /\ Last.kind = "train"
    /\ is_mixed_precision
    /\ Last.scale # F(1)
    /\ Last.applied # << >>
    /\ Last.after # Last.before
    /\ Last.gradients[1] # Last.gradients[2]

\* C3: each "ctc_loss" accumulator reports the mean of all per-example
\* losses recorded since it was installed, whatever the batch sizes and
\* whether or not mixed precision is on.
C3_RunningMean ==
    /\ "ctc_loss" \in DOMAIN train_metrics =>
          /\ Result(train_metrics["ctc_loss"]) = MeanOf(hist.seenTrain)
          /\ train_metrics["ctc_loss"].count = Len(hist.seenTrain)
    /\ "ctc_loss" \in DOMAIN eval_metrics =>
          /\ Result(eval_metrics["ctc_loss"]) = MeanOf(hist.seenEval)
          /\ eval_metrics["ctc_loss"].count = Len(hist.seenEval)

\* Two train steps on batches of different sizes, where the mean of the
\* per-example losses is not the mean of the two reduced losses.
C3_Witness ==
    /\ Len(hist.reducedTrain) = 2
    /\ Len(hist.seenTrain) = 3
    /\ AllFinite(hist.seenTrain)
    /\ Result(train_metrics["ctc_loss"]) = MeanOf(hist.seenTrain)
    /\ Result(train_metrics["ctc_loss"]) # MeanOf(hist.reducedTrain)

\* The gradients a train step without mixed precision hands to the
\* optimizer for the batch of the last step.
UnscaledPairs(last) ==
    Zip(TapeGradient(F(1), last.batch, global_batch_size), TrainableVariables)

\* C4 as stated: under mixed precision, after a train step on a batch with
\* finite losses, the gradients applied are those of a step without mixed
\* precision.
C4_Original ==
    (Last.kind = "train" /\ is_mixed_precision /\ AllFinite(Last.per)) =>
        Last.applied = UnscaledPairs(Last)

\* C4 as amended: the same, for the steps whose scaled gradients are all
\* finite (the scaling did not overflow).
C4_ScaleUnscaleNoOp ==
    (/\ Last.kind = "train"
     /\ is_mixed_precision
     /\ AllFinite(Last.per)
     /\ AllFinite(TapeGradient(Last.scale, Last.batch, global_batch_size))) =>
        Last.applied = UnscaledPairs(Last)

C4_Witness ==
    /\ Last.kind = "train"
    /\ is_mixed_precision
    /\ AllFinite(Last.per)
    /\ Last.scale # F(1)
    /\ Last.applied # << >>
    /\ Last.applied = UnscaledPairs(Last)
    /\ Last.applied[1].grad # F(0)

\* C5: latest.h5 exists exactly when save_model_weights was called, and
\* loading it gives the weights the model had at the most recent call.
C5_LatestRoundTrip ==
    /\ latest_h5 = << >> <=> hist.saved = << >>
    /\ latest_h5 # << >> => load_weights(latest_h5) = hist.saved

\* The file holds trained weights, and the model has been trained on since.
C5_Witness ==
    /\ latest_h5 # << >>
    /\ hist.saved # Zeros
    /\ weights[model] # hist.saved
    /\ load_weights(latest_h5) = hist.saved

\* C6: each metrics mapping has the one key "ctc_loss", and its accumulator
\* holds exactly the losses recorded after the most recent call of
\* set_train_metrics (set_eval_metrics), none of those recorded before it.
C6_ResetReplaces ==
    /\ DOMAIN train_metrics = {"ctc_loss"}
    /\ DOMAIN eval_metrics = {"ctc_loss"}
    /\ train_metrics["ctc_loss"] = Accumulated(hist.seenTrain)
    /\ eval_metrics["ctc_loss"] = Accumulated(hist.seenEval)

\* A second set_train_metrics dropped recorded losses, and a step followed.
C6_Witness ==
    /\ hist.trainSets >= 1
    /\ hist.droppedTrain
    /\ hist.seenTrain # << >>
    /\ train_metrics["ctc_loss"].count = Len(hist.seenTrain)

\* compile has bound model and optimizer, fit wired both loaders after
\* that, and then attempted the restore.
Ready ==
    /\ model # 0
    /\ optimizer.id # 0
    /\ train_data_loader = 1
    /\ eval_data_loader # 0
    /\ hist.wiredAfterCompile
    /\ hist.restore # "none"

\* C7: the run loop starts, and a step runs, only after compile, then the
\* wiring of the loaders, then the restore attempt; the restore is attempted
\* only with the loaders wired after compile; and once the restore was
\* attempted, with or without a checkpoint, the run loop can start.
C7_StepsAfterCompileWireRestore ==
    /\ [](pc \in {"fit_restored", "running"} => Ready)
    /\ [](pc = "fit_restored" => ENABLED FitRun)
    /\ [][ /\ hist'.steps > hist.steps => (pc = "running" /\ Ready)
           /\ (pc' = "running" /\ pc # "running") => (pc = "fit_restored" /\ Ready)
           /\ (hist'.restore # "none" /\ hist.restore = "none") =>
                 /\ pc = "fit_wired"
                 /\ model # 0
                 /\ train_data_loader = 1
                 /\ eval_data_loader # 0
                 /\ hist.wiredAfterCompile ]_vars

\* A step ran in a run loop that fit started without a checkpoint.
C7_Witness ==
    /\ pc = "running"
    /\ hist.restore = "missing"
    /\ hist.steps > 0

\* C8: before compile there is no optimizer; after it the optimizer is a
\* loss-scale wrapper around a resolved optimizer exactly when mixed
\* precision is on, and the checkpoint manager is bound to that optimizer
\* object and to the compiled model.
C8_WrappedIffMixed ==
    /\ model = 0 => (optimizer = NoOptimizer /\ ckpt_manager = NoManager)
    /\ model # 0 =>
          /\ optimizer.id # 0
          /\ optimizer.wrapped <=> is_mixed_precision
          /\ optimizer.wrapped => (optimizer.inner # 0 /\ optimizer.inner # optimizer.id)
          /\ ckpt_manager.optimizer = optimizer.id
          /\ ckpt_manager.model = model
    /\ (Last.kind = "train" /\ is_mixed_precision) => optimizer.wrapped

\* A mixed-precision train step ran on the wrapped optimizer.
C8_Witness ==
    /\ Last.kind = "train"
    /\ is_mixed_precision
    /\ optimizer.wrapped
    /\ ckpt_manager.optimizer = optimizer.id

\* C9: when every replica has reduced its shard of a global batch, the sum
\* of the reduced losses is the mean per-example loss of the global batch.
C9_ShardsSumToGlobalMean ==
    (pc = "sharding" /\ replicas.done = Len(replicas.sizes)) =>
        replicas.sum = MeanOf(PerExampleLoss(replicas.batch))

\* Two non-empty shards with different finite losses.
C9_Witness ==
    /\ pc = "sharding"
    /\ replicas.sizes = << 1, 1 >>
    /\ replicas.done = 2
    /\ IsFinite(replicas.sum)
    /\ replicas.batch[1].loss # replicas.batch[2].loss
    /\ replicas.sum = MeanOf(PerExampleLoss(replicas.batch))

MinOf(a, b) == IF a < b THEN a ELSE b

\* C10: once the manager compile created has saved, the directory holds at
\* most max_to_keep checkpoints, they are the most recently saved ones, and
\* there are max_to_keep of them when the manager saved that many.
C10_KeepsMostRecent ==
    hist.savedByManager > 0 =>
        /\ ckpt_manager.max_to_keep = hist.keepArg
        /\ Len(checkpoints) <= hist.keepArg
        /\ Len(checkpoints) >= MinOf(hist.keepArg, hist.savedByManager)
        /\ \A k \in 1..Len(checkpoints) :
              checkpoints[k].n =
                  hist.allSaves[Len(hist.allSaves) - Len(checkpoints) + k]

\* The oldest checkpoint was evicted.
C10_Witness ==
    /\ hist.savedByManager = 3
    /\ hist.keepArg = 2
    /\ Len(checkpoints) = 2
    /\ checkpoints[1].n = 2
    /\ checkpoints[2].n = 3

=============================================================================
